---- MODULE Spec2Model ----
(***************************************************************************)
(* fnkt: the Runner (src/fnkt/runner.py, run_in_container) and the         *)
(* Generator (src/fnkt/generator.py, generate_workflow and                 *)
(* clean_generated_code) as state machines.                                *)
(*                                                                         *)
(* Text is a sequence of tokens.  A token is one character the code looks  *)
(* at (":", a backtick, "#", a whitespace character, a letter of "python") *)
(* or an opaque run of characters: a run that holds no backtick, has no    *)
(* line beginning with "#", neither begins nor ends with whitespace, and   *)
(* does not follow a code fence.                                           *)
(***************************************************************************)
EXTENDS Integers, Sequences, FiniteSets, TLC

VARIABLES
    \* ---- Runner: one invocation of run_in_container
    rpc,            \* position in run_in_container
    files,          \* the paths that exist on the file system
    script_path,    \* parameter
    script_args,    \* parameter
    artifacts,      \* parameter
    cmd,            \* local cmd
    artifact_args,  \* local artifact_args
    idx,            \* position of the for loop over artifacts (1-based)
    spawned,        \* child processes spawned by this invocation
    childArgv,      \* argument vector the child was given
    result,         \* what the child left: returncode, stdout, stderr
    raised,         \* the exception that left run_in_container
    failure,        \* the exception raised inside the try block ("None" when none)
    console,        \* what console.print emitted, in order
    \* ---- Generator: invocations of generate_workflow
    gpc,            \* position in generate_workflow
    description,    \* parameter
    output_dir,     \* parameter
    name_arg,       \* parameter name as the caller gave it
    name,           \* local name (the file name)
    code,           \* local code (the text to write)
    markers,        \* whether the cleaned response held both section markers
    output_file_path, \* local output_file_path
    dirs,           \* the directories that exist
    disk,           \* the files that exist: path -> text
    effects,        \* side effects of this invocation, in order
    graised,        \* the exception that left generate_workflow
    response,       \* the text the completion boundary returned
    prev,           \* the invocation before this one, as the caller saw it
    calls,          \* invocations so far
    \* ---- clean_generated_code on its own
    cpc,            \* "input" or "done"
    cin,            \* argument
    cout            \* return value

rvars == <<rpc, files, script_path, script_args, artifacts, cmd, artifact_args,
           idx, spawned, childArgv, result, raised, failure, console>>

gvars == <<gpc, description, output_dir, name_arg, name, code, markers,
           output_file_path, dirs, disk, effects, graised, response, prev, calls>>

cvars == <<cpc, cin, cout>>

vars == <<rvars, gvars, cvars>>

\* ------------------------------------------------------------------ bounds

MaxArgs == 2
MaxArtifacts == 2
MaxCalls == 2
MaxPieces == 4

\* ------------------------------------------------------------------ text helpers

SeqsUpTo(S, n) == UNION {[1..k -> S] : k \in 0..n}

\* s occurs in t as a contiguous run starting at position i
OccursAt(s, t, i) ==
    /\ i >= 1
    /\ i + Len(s) - 1 <= Len(t)
    /\ \A k \in 1..Len(s) : t[i + k - 1] = s[k]

\* Python's  s in t  on strings
Contains(t, s) == \E i \in 1..(Len(t) + 1) : OccursAt(s, t, i)

RECURSIVE Concat(_)
Concat(ss) == IF ss = <<>> THEN <<>> ELSE Head(ss) \o Concat(Tail(ss))

\* str(n) of a natural number, one token per digit
RECURSIVE NatStr(_)
NatStr(n) ==
    LET d == <<"0", "1", "2", "3", "4", "5", "6", "7", "8", "9">>
    IN  IF n < 10 THEN <<d[n + 1]>> ELSE NatStr(n \div 10) \o <<d[(n % 10) + 1]>>

\* str(n) of an integer
IntStr(n) == IF n < 0 THEN <<"-">> \o NatStr(-n) ELSE NatStr(n)

\* ------------------------------------------------------------------ Runner inputs

Interpreter == <<"sys.executable">>
ArtifactsFlag == <<"--artifacts">>

ScriptPaths == {<<"s.py">>, <<"missing.py">>}
ArgValues == {<<"x">>, <<"--url">>}
Mappings ==
    {<<"a", ":", "b">>, <<"a", "b">>, <<"a", ":", "b", ":", "c">>,
     <<":", "b">>, <<"a", ":">>, <<":">>, <<>>}
ReturnCodes == {0, 1, 2, -9}
Outputs == {<<>>, <<"done", "\n">>}
ErrOutputs == {<<>>, <<"boom", "\n">>}

NoResult == [returncode |-> 0, stdout |-> <<>>, stderr |-> <<>>, set |-> FALSE]
NoException == [type |-> "None", msg |-> <<>>, cause |-> "None"]

\* ------------------------------------------------------------------ Runner helpers

\* a runner that never looks at the file system
PathExistsUnchecked(fs, p) == TRUE

\* os.path.exists(script_path)
PathExists(fs, p) == p \in fs

\* a check that only refuses the empty mapping
HasSeparatorNonEmpty(mapping) == mapping # <<>>

\* ":" in mapping
HasSeparator(mapping) == Contains(mapping, <<":">>)

\* the two extends swapped
ExtendCmdArtifactsFirst(base, args, artArgs) ==
    LET c1 == IF artArgs # <<>> THEN base \o artArgs ELSE base
    IN  IF args # <<>> THEN c1 \o args ELSE c1

\* cmd after  cmd.extend(script_args); cmd.extend(artifact_args)
ExtendCmd(base, args, artArgs) ==
    LET c1 == IF args # <<>> THEN base \o args ELSE base
    IN  IF artArgs # <<>> THEN c1 \o artArgs ELSE c1

\* a runner that takes stderr output for a failure
RaisesOnStderr(res) == res.returncode # 0 \/ res.stderr # <<>>

\* subprocess.run(check=True) raises CalledProcessError
RaisesCalledProcessError(res) == res.returncode # 0

\* an error message that drops the captured stderr
ErrorMsgCodeOnly(returncode, stderr) ==
    <<"Container execution failed with exit code ">> \o IntStr(returncode)

\* error_msg of the CalledProcessError handler
ErrorMsg(returncode, stderr) ==
    LET m == <<"Container execution failed with exit code ">> \o IntStr(returncode)
    IN  IF stderr # <<>> THEN m \o <<"\nError output:\n">> \o stderr ELSE m

\* what the success path prints
SuccessOutput(res) ==
    (IF res.stdout # <<>>
        THEN <<[style |-> "green", text |-> <<"Command output:">>],
               [style |-> "bold", text |-> res.stdout]>>
        ELSE <<>>)
    \o
    (IF res.stderr # <<>>
        THEN <<[style |-> "yellow", text |-> <<"Command stderr:">>],
               [style |-> "plain", text |-> res.stderr]>>
        ELSE <<>>)

\* ------------------------------------------------------------------ Runner actions

RunnerIdle ==
    /\ rpc = "Idle"
    /\ script_path = <<>>
    /\ script_args = <<>>
    /\ artifacts = <<>>
    /\ cmd = <<>>
    /\ artifact_args = <<>>
    /\ idx = 1
    /\ spawned = 0
    /\ childArgv = <<>>
    /\ result = NoResult
    /\ raised = NoException
    /\ failure = "None"
    /\ console = <<>>

\* the Generator and clean_generated_code at rest
GeneratorAtRest ==
    /\ gpc = "Idle"
    /\ description = <<>>
    /\ output_dir = <<>>
    /\ name_arg = [none |-> TRUE, text |-> <<>>]
    /\ name = <<>>
    /\ code = <<>>
    /\ markers = FALSE
    /\ output_file_path = <<>>
    /\ effects = <<>>
    /\ graised = "None"
    /\ response = <<>>
    /\ dirs = {}
    /\ disk = <<>>
    /\ prev = [valid |-> FALSE, name_arg |-> [none |-> TRUE, text |-> <<>>],
               output_dir |-> <<>>, ok |-> FALSE, path |-> <<>>, text |-> <<>>,
               paths |-> {}]
    /\ calls = 0
    /\ cpc = "idle"
    /\ cin = <<>>
    /\ cout = <<>>

Init ==
    /\ RunnerIdle
    /\ files = {<<"s.py">>}
    /\ GeneratorAtRest

\* the caller enters run_in_container
Call(p, args, arts) ==
    /\ rpc = "Idle"
    /\ rpc' = "CheckPath"
    /\ script_path' = p
    /\ script_args' = args
    /\ artifacts' = arts
    /\ UNCHANGED <<gvars, cvars, failure, files, cmd, artifact_args, idx, spawned, childArgv, result,
                   raised, console>>

\* if not os.path.exists(script_path): raise FileNotFoundError; cmd = [...]
CheckPath ==
    /\ rpc = "CheckPath"
    /\ IF ~PathExists(files, script_path)
          THEN /\ raised' = [type |-> "FileNotFoundError",
                             msg |-> <<"Script not found: ">> \o script_path,
                             cause |-> "None"]
               /\ rpc' = "Failed"
               /\ UNCHANGED <<cmd, artifact_args, idx>>
          ELSE /\ cmd' = <<Interpreter, script_path>>
               /\ artifact_args' = <<>>
               /\ idx' = 1
               /\ rpc' = "CheckMappings"
               /\ UNCHANGED raised
    /\ UNCHANGED <<gvars, cvars, failure, files, script_path, script_args, artifacts, spawned, childArgv,
                   result, console>>

\* one iteration of  for mapping in artifacts
CheckMapping ==
    /\ rpc = "CheckMappings"
    /\ idx <= Len(artifacts)
    /\ LET mapping == artifacts[idx]
       IN  IF ~HasSeparator(mapping)
              THEN /\ raised' = [type |-> "ValueError",
                                 msg |-> <<"Invalid artifact mapping format: ">> \o mapping,
                                 cause |-> "None"]
                   /\ rpc' = "Failed"
                   /\ UNCHANGED <<artifact_args, idx>>
              ELSE /\ artifact_args' = artifact_args \o <<ArtifactsFlag, mapping>>
                   /\ idx' = idx + 1
                   /\ UNCHANGED <<rpc, raised>>
    /\ UNCHANGED <<gvars, cvars, failure, files, script_path, script_args, artifacts, cmd, spawned,
                   childArgv, result, console>>

\* the loop is over: extend cmd, print the rule, log the command
BuildCmd ==
    /\ rpc = "CheckMappings"
    /\ idx > Len(artifacts)
    /\ cmd' = ExtendCmd(cmd, script_args, artifact_args)
    /\ console' = console \o <<[style |-> "rule", text |-> <<"Executing Workflow">>]>>
    /\ rpc' = "Run"
    /\ UNCHANGED <<gvars, cvars, failure, files, script_path, script_args, artifacts, artifact_args, idx,
                   spawned, childArgv, result, raised>>

\* subprocess.run starts the child
SpawnChild ==
    /\ rpc = "Run"
    /\ spawned' = spawned + 1
    /\ childArgv' = cmd
    /\ rpc' = "Spawned"
    /\ UNCHANGED <<gvars, cvars, failure, files, script_path, script_args, artifacts, cmd, artifact_args,
                   idx, result, raised, console>>

\* the exceptions subprocess.run raises when it cannot start the child
SpawnErrors == {"PermissionError", "FileNotFoundError", "ValueError"}

\* the exceptions subprocess.run raises while it waits for the child's output
CommunicateErrors == {"UnicodeDecodeError", "OSError"}

\* except Exception as e: a bare re-raise instead of the wrapped exception
UnexpectedErrorReraised(e) ==
    [type |-> e, msg |-> <<e>>, cause |-> "None"]

\* except Exception as e: raise ContainerExecutionError(...) from e
UnexpectedError(e) ==
    [type |-> "ContainerExecutionError",
     msg |-> <<"Unexpected error during container execution: ", e>>,
     cause |-> e]

\* subprocess.run cannot start the child: except Exception
SpawnFails ==
    /\ rpc = "Run"
    /\ \E e \in SpawnErrors :
          /\ failure' = e
          /\ raised' = UnexpectedError(e)
          /\ console' = console \o
                <<[style |-> "bold red",
                   text |-> <<"Unexpected error during container execution:", e>>]>>
    /\ rpc' = "Failed"
    /\ UNCHANGED <<gvars, cvars, files, script_path, script_args, artifacts, cmd, artifact_args,
                   idx, spawned, childArgv, result>>

\* the child terminates; subprocess.run returns or raises CalledProcessError
ChildExits(rc, out, err) ==
    /\ rpc = "Spawned"
    /\ LET res == [returncode |-> rc, stdout |-> out, stderr |-> err, set |-> TRUE]
       IN  /\ result' = res
           /\ IF RaisesCalledProcessError(res)
                 THEN LET error_msg == ErrorMsg(res.returncode, res.stderr)
                      IN  /\ console' = console \o
                                <<[style |-> "bold red", text |-> <<"Error:">> \o error_msg]>>
                          /\ raised' = [type |-> "ContainerExecutionError",
                                        msg |-> error_msg,
                                        cause |-> "CalledProcessError"]
                          /\ failure' = "CalledProcessError"
                          /\ rpc' = "Failed"
                 ELSE /\ console' = console \o SuccessOutput(res)
                      /\ rpc' = "Succeeded"
                      /\ UNCHANGED <<raised, failure>>
    /\ UNCHANGED <<gvars, cvars, files, script_path, script_args, artifacts, cmd, artifact_args,
                   idx, spawned, childArgv>>

\* communicating with the child fails (e.g. its output does not decode)
CommunicateFails ==
    /\ rpc = "Spawned"
    /\ \E e \in CommunicateErrors :
          /\ failure' = e
          /\ raised' = UnexpectedError(e)
          /\ console' = console \o
                <<[style |-> "bold red",
                   text |-> <<"Unexpected error during container execution:", e>>]>>
    /\ rpc' = "Failed"
    /\ UNCHANGED <<gvars, cvars, files, script_path, script_args, artifacts, cmd, artifact_args,
                   idx, spawned, childArgv, result>>

\* a runner that runs the command once more after a failed run
ReturnRetrying ==
    \/ /\ rpc = "Failed"
       /\ spawned = 1
       /\ rpc' = "Spawned"
       /\ spawned' = spawned + 1
       /\ result' = NoResult
       /\ raised' = NoException
       /\ failure' = "None"
       /\ UNCHANGED <<gvars, cvars, files, script_path, script_args, artifacts, cmd,
                      artifact_args, idx, childArgv, console>>
    \/ /\ rpc \in {"Succeeded", "Failed"}
       /\ rpc' = "Idle"
       /\ script_path' = <<>>
       /\ script_args' = <<>>
       /\ artifacts' = <<>>
       /\ cmd' = <<>>
       /\ artifact_args' = <<>>
       /\ idx' = 1
       /\ spawned' = 0
       /\ childArgv' = <<>>
       /\ result' = NoResult
       /\ raised' = NoException
       /\ failure' = "None"
       /\ console' = <<>>
       /\ UNCHANGED <<gvars, cvars, files>>

\* run_in_container has returned or raised; the next invocation starts afresh
Return ==
    /\ rpc \in {"Succeeded", "Failed"}
    /\ rpc' = "Idle"
    /\ script_path' = <<>>
    /\ script_args' = <<>>
    /\ artifacts' = <<>>
    /\ cmd' = <<>>
    /\ artifact_args' = <<>>
    /\ idx' = 1
    /\ spawned' = 0
    /\ childArgv' = <<>>
    /\ result' = NoResult
    /\ raised' = NoException
    /\ failure' = "None"
    /\ console' = <<>>
    /\ UNCHANGED <<gvars, cvars, files>>

\* run_in_container is called with some script path, arguments and mappings
RunCalled ==
    /\ rpc = "Idle"
    /\ \E p \in ScriptPaths, args \in SeqsUpTo(ArgValues, MaxArgs),
          arts \in SeqsUpTo(Mappings, MaxArtifacts) : Call(p, args, arts)

Next ==
    \/ RunCalled
    \/ CheckPath
    \/ CheckMapping
    \/ BuildCmd
    \/ SpawnChild
    \/ SpawnFails
    \/ \E rc \in ReturnCodes, out \in Outputs, err \in ErrOutputs : ChildExits(rc, out, err)
    \/ CommunicateFails
    \/ Return

Spec == Init /\ [][Next]_vars

\* ------------------------------------------------------------------ Runner claims

InCall == rpc # "Idle"
ScriptMissing == script_path \notin files
NoColon(m) == \A i \in 1..Len(m) : m[i] # ":"
SomeMappingWithoutColon == \E i \in 1..Len(artifacts) : NoColon(artifacts[i])
NeverSpawned == spawned = 0 /\ childArgv = <<>> /\ rpc \notin {"Spawned", "Succeeded"}

\* C1: a call whose scriptPath does not exist fails with the not-found error and
\* never spawns a child, whatever the arguments and the artifact mappings are:
\* the path check comes before the mapping validation.
C1_MissingScriptNotFound ==
    (InCall /\ ScriptMissing) =>
        /\ NeverSpawned
        /\ rpc \in {"CheckPath", "Failed"}
        /\ rpc = "Failed" => raised.type = "FileNotFoundError"

C1_Witness ==
    /\ rpc = "Failed"
    /\ ScriptMissing
    /\ SomeMappingWithoutColon
    /\ script_args # <<>>
    /\ raised.type = "FileNotFoundError"
    /\ spawned = 0

\* C2: with an existing scriptPath and an artifacts list holding a mapping with
\* no ':', the call fails with the validation error and never reaches Spawned,
\* wherever the bad mapping stands in the list.
C2_MappingWithoutColonRejected ==
    (InCall /\ ~ScriptMissing /\ SomeMappingWithoutColon) =>
        /\ NeverSpawned
        /\ rpc \in {"CheckPath", "CheckMappings", "Failed"}
        /\ rpc = "Failed" => raised.type = "ValueError"

C2_Witness ==
    /\ rpc = "Failed"
    /\ ~ScriptMissing
    /\ Len(artifacts) = 2
    /\ ~NoColon(artifacts[1])
    /\ NoColon(artifacts[2])
    /\ raised.type = "ValueError"
    /\ spawned = 0

ArtifactPairs(arts) == Concat([i \in 1..Len(arts) |-> <<ArtifactsFlag, arts[i]>>])
ExpectedArgv == <<Interpreter, script_path>> \o script_args \o ArtifactPairs(artifacts)

\* C3: the argument vector of the spawned child is exactly
\* [interpreter, scriptPath] ++ scriptArgs ++ ["--artifacts", m1, ..., "--artifacts", mk].
C3_ChildArgv ==
    spawned > 0 => childArgv = ExpectedArgv

C3_Witness ==
    /\ rpc = "Spawned"
    /\ Len(script_args) = 2
    /\ Len(artifacts) = 2
    /\ artifacts[1] # artifacts[2]
    /\ childArgv = ExpectedArgv

C3_WitnessEmpty ==
    /\ rpc = "Spawned"
    /\ script_args = <<>>
    /\ artifacts = <<>>
    /\ childArgv = <<Interpreter, script_path>>

ColonCount(m) == Cardinality({i \in 1..Len(m) : m[i] = ":"})
TwoNonEmptySegments(m) ==
    /\ ColonCount(m) = 1
    /\ m[1] # ":"
    /\ m[Len(m)] # ":"

\* C4: a mapping that does not split on ':' into exactly two non-empty segments
\* is rejected before any process is spawned.
C4_MalformedMappingRejected ==
    (InCall /\ \E i \in 1..Len(artifacts) : ~TwoNonEmptySegments(artifacts[i])) =>
        NeverSpawned

EmittedStdout == Concat([i \in 1..Len(console) |->
                    IF console[i].style = "bold" THEN console[i].text ELSE <<>>])

Phase(pc) == IF pc \in {"CheckPath", "CheckMappings", "Run"} THEN "Validating" ELSE pc

PhaseSteps ==
    {<<"Idle", "Validating">>, <<"Validating", "Validating">>,
     <<"Validating", "Spawned">>, <<"Validating", "Failed">>,
     <<"Spawned", "Succeeded">>, <<"Spawned", "Failed">>,
     <<"Succeeded", "Idle">>, <<"Failed", "Idle">>}

\* both checks have been made and have passed
ValidationPassed ==
    /\ rpc \in {"Run", "Spawned", "Succeeded", "Failed"}
    /\ ~ScriptMissing
    /\ ~SomeMappingWithoutColon

InvocationOver == rpc \in {"Succeeded", "Failed"}

\* nothing of an earlier invocation is left when one starts
StartsAfresh ==
    /\ rpc = "Idle" => RunnerIdle
    /\ rpc = "CheckPath" =>
          /\ cmd = <<>> /\ artifact_args = <<>> /\ idx = 1
          /\ spawned = 0 /\ childArgv = <<>> /\ result = NoResult
          /\ raised = NoException /\ failure = "None" /\ console = <<>>

SpawnedOnlyWhenValid ==
    (rpc \in {"Spawned", "Succeeded"} \/ spawned > 0) =>
        (ValidationPassed /\ idx > Len(artifacts))

\* the child could not be started: subprocess.run raised instead of running the command
StartFailed == rpc = "Failed" /\ failure \in SpawnErrors

\* C11 as stated, its counted part: at most one child per invocation, and exactly
\* one by the end of every invocation whose validation passed.
C11_ExactlyOneChildWhenValid ==
    /\ spawned <= 1
    /\ (InvocationOver /\ ValidationPassed) => spawned = 1

C11_States ==
    /\ StartsAfresh
    /\ SpawnedOnlyWhenValid
    /\ spawned <= 1
    /\ (InvocationOver /\ ValidationPassed) =>
          IF StartFailed THEN spawned = 0 ELSE spawned = 1

C11_Step ==
    /\ <<Phase(rpc), Phase(rpc')>> \in PhaseSteps
    /\ rpc \in {"Succeeded", "Failed"} => (rpc' = "Idle" /\ spawned' = 0)
    /\ spawned' \in {0, spawned, spawned + 1}
    /\ spawned' = spawned + 1 <=> (rpc # "Spawned" /\ rpc' = "Spawned")

\* C11: every invocation goes Idle -> Validating -> Spawned -> {Succeeded, Failed};
\* Spawned is entered only after the script-path check and every mapping check
\* have passed; at most one child is spawned per invocation, and exactly one when
\* validation passes and the child can be started (none when starting it fails);
\* nothing leads from Succeeded or Failed back to Spawned; every invocation starts
\* from Idle with nothing left of earlier ones.
C11_RunStateMachine ==
    /\ []C11_States
    /\ [][C11_Step]_vars

C11_Witness ==
    /\ rpc = "Succeeded"
    /\ spawned = 1
    /\ Len(artifacts) = 2
    /\ ValidationPassed

C11_WitnessStartFailed ==
    /\ StartFailed
    /\ ValidationPassed
    /\ spawned = 0

NonZeroExit == result.set /\ result.returncode # 0

\* C12: when validation has passed and starting the child or communicating with
\* it fails for a reason other than a non-zero exit, run fails with
\* ContainerExecutionError whose cause is the original failure; no other error
\* type leaves run once validation has passed.
C12_SpawnFailureWrapped ==
    /\ (rpc = "Failed" /\ ValidationPassed /\ ~NonZeroExit) =>
          /\ failure \in SpawnErrors \cup CommunicateErrors
          /\ raised.type = "ContainerExecutionError"
          /\ raised.cause = failure
    /\ (ValidationPassed /\ raised # NoException) =>
          raised.type = "ContainerExecutionError"

C12_Witness ==
    /\ rpc = "Failed"
    /\ ValidationPassed
    /\ spawned = 0
    /\ failure = "PermissionError"
    /\ raised.type = "ContainerExecutionError"
    /\ raised.cause = "PermissionError"

C12_WitnessCommunicate ==
    /\ rpc = "Failed"
    /\ ValidationPassed
    /\ spawned = 1
    /\ ~result.set
    /\ failure = "UnicodeDecodeError"
    /\ raised.cause = "UnicodeDecodeError"

\* ------------------------------------------------------------------ Generator: text

IsSpace(c) == c \in {" ", "\n", "\t"}

\* the character U+0060, which a TLA+ string cannot hold
Backtick == "<backtick>"
Fence == <<Backtick, Backtick, Backtick>>
PythonWord == <<"p", "y", "t", "h", "o", "n">>

DropFirst(s, n) == SubSeq(s, n + 1, Len(s))

\* re.sub(r'[3 backticks](?:python)?', '', code): leftmost matches, left to right
RECURSIVE RemoveFences(_)
RemoveFences(s) ==
    IF s = <<>> THEN <<>>
    ELSE IF OccursAt(Fence, s, 1)
        THEN LET rest == DropFirst(s, 3)
             IN  IF OccursAt(PythonWord, rest, 1)
                    THEN RemoveFences(DropFirst(rest, 6))
                    ELSE RemoveFences(rest)
        ELSE <<Head(s)>> \o RemoveFences(Tail(s))

RECURSIVE LeadingHashes(_)
LeadingHashes(s) ==
    IF s # <<>> /\ Head(s) = "#" THEN 1 + LeadingHashes(Tail(s)) ELSE 0

RECURSIVE LeadingSpaces(_)
LeadingSpaces(s) ==
    IF s # <<>> /\ IsSpace(Head(s)) THEN 1 + LeadingSpaces(Tail(s)) ELSE 0

\* re.sub(r'^#+\s+', '', code, flags=re.MULTILINE); atLineStart says whether ^
\* matches where s begins (the start of the text, or right after a "\n")
RECURSIVE RemoveHeaders(_, _)
RemoveHeaders(s, atLineStart) ==
    IF s = <<>> THEN <<>>
    ELSE LET h == LeadingHashes(s)
             w == LeadingSpaces(DropFirst(s, h))
         IN  IF atLineStart /\ h >= 1 /\ w >= 1
                THEN RemoveHeaders(DropFirst(s, h + w), s[h + w] = "\n")
                ELSE <<Head(s)>> \o RemoveHeaders(Tail(s), Head(s) = "\n")

RECURSIVE TrailingSpaces(_)
TrailingSpaces(s) ==
    IF s # <<>> /\ IsSpace(s[Len(s)])
       THEN 1 + TrailingSpaces(SubSeq(s, 1, Len(s) - 1)) ELSE 0

\* str.strip()
Strip(s) ==
    LET l == LeadingSpaces(s)
    IN  IF l = Len(s) THEN <<>> ELSE SubSeq(s, l + 1, Len(s) - TrailingSpaces(s))

clean_generated_code(c) == Strip(RemoveHeaders(RemoveFences(c), TRUE))

\* str.find, 1-based; 0 when sub does not occur
FindFirst(sub, t) ==
    IF Contains(t, sub)
       THEN CHOOSE i \in 1..(Len(t) + 1) :
                /\ OccursAt(sub, t, i)
                /\ \A j \in 1..(i - 1) : ~OccursAt(sub, t, j)
       ELSE 0

\* t.split(sep)[0] and t.split(sep)[1], for a t that holds sep
SplitPart0(t, sep) == SubSeq(t, 1, FindFirst(sep, t) - 1)
SplitPart1(t, sep) ==
    LET rest == DropFirst(t, FindFirst(sep, t) + Len(sep) - 1)
        j == FindFirst(sep, rest)
    IN  IF j = 0 THEN rest ELSE SubSeq(rest, 1, j - 1)

\* t.replace(old, "")
RECURSIVE RemoveAll(_, _)
RemoveAll(t, old) ==
    IF t = <<>> THEN <<>>
    ELSE IF OccursAt(old, t, 1) THEN RemoveAll(DropFirst(t, Len(old)), old)
    ELSE <<Head(t)>> \o RemoveAll(Tail(t), old)

HelperMarker == <<"HELPER_", "FUNCTIONS:">>
WorkflowMarker == <<"WORKFLOW_", "LOGIC:">>
Placeholder == <<"#", " ", "No helper functions provided">>

HasMarkers(content) == Contains(content, HelperMarker) /\ Contains(content, WorkflowMarker)

helper_section(content) ==
    IF HasMarkers(content)
       THEN Strip(RemoveAll(SplitPart0(content, WorkflowMarker), HelperMarker))
       ELSE Placeholder

workflow_section(content) ==
    IF HasMarkers(content)
       THEN Strip(SplitPart1(content, WorkflowMarker))
       ELSE Strip(content)

Ind(n) == [i \in 1..n |-> " "]
NL == <<"\n">>

\* WORKFLOW_TEMPLATE, cut at its three substitutions.  Lines 14-42 of the
\* template (setup_dependencies and the head of main) and its last two lines
\* are opaque: they hold no backtick and none of their lines begins with "#".
TemplateHead ==
    <<"#", "!/usr/bin/env python3", "\n", "\"\"\"">>
TemplateAfterDescription ==
    <<"\"\"\"", "\n", "\n">>
TemplateAfterHelpers ==
    <<"\n", "\n", "def setup_dependencies(): ... def main(): ... init_artifacts()", "\n">>
        \o Ind(4)
TemplateTail ==
    <<"\n", "\n", "if __name__ == '__main__': main()">>

\* Template(WORKFLOW_TEMPLATE).render(...)
Render(desc, helpers, logic) ==
    TemplateHead \o desc \o TemplateAfterDescription \o helpers
        \o TemplateAfterHelpers \o logic \o TemplateTail

\* the text generate_workflow writes for a completion response
GeneratedCode(desc, resp) ==
    LET content == clean_generated_code(resp)
    IN  clean_generated_code(Render(desc, helper_section(content), workflow_section(content)))

EndsWith(s, suffix) == OccursAt(suffix, s, Len(s) - Len(suffix) + 1)

NoName == [none |-> TRUE, text |-> <<>>]
Named(t) == [none |-> FALSE, text |-> t]

\* the file name: generated when name is None or empty, else given ".py"
FileName(nm, hex) ==
    IF nm.none \/ nm.text = <<>>
       THEN <<"workflow_">> \o hex \o <<".py">>
       ELSE IF ~EndsWith(nm.text, <<".py">>) THEN nm.text \o <<".py">> ELSE nm.text

\* os.path.join(a, b)
PathJoin(a, b) ==
    IF b # <<>> /\ b[1] = "/" THEN b
    ELSE IF a = <<>> \/ a[Len(a)] = "/" THEN a \o b
    ELSE a \o <<"/">> \o b

\* a write that appends to what the file holds
WriteTextAppend(d, path, text) ==
    [p \in (DOMAIN d) \cup {path} |->
        IF p = path THEN (IF path \in DOMAIN d THEN d[path] ELSE <<>>) \o text ELSE d[p]]

\* open(path, 'w') and file.write(text)
WriteText(d, path, text) ==
    [p \in (DOMAIN d) \cup {path} |-> IF p = path THEN text ELSE d[p]]

\* ------------------------------------------------------------------ Generator: inputs

Descriptions == {<<"print the current time">>}
OutputDirs == {<<"workflows">>, <<"out">>}
Names == {NoName, Named(<<>>), Named(<<"wf">>), Named(<<"wf", ".py">>)}
\* uuid.uuid4().hex[:8]
UuidHex == {<<"f75be458">>, <<"0a1b2c3d">>}

\* what the completion boundary may answer
Responses ==
    {<<>>,
     <<" ", "\n">>,
     Fence \o PythonWord \o NL \o Fence,
     <<"print(1)">>,
     Fence \o PythonWord \o NL \o <<"print(1)">> \o NL \o Fence,
     HelperMarker \o NL \o <<"import os">> \o NL \o WorkflowMarker \o NL \o <<"print(1)">>}

NoPrev == [valid |-> FALSE, name_arg |-> NoName, output_dir |-> <<>>, ok |-> FALSE,
           path |-> <<>>, text |-> <<>>, paths |-> {}]

\* ------------------------------------------------------------------ Generator: actions

GenIdle ==
    /\ gpc = "Idle"
    /\ description = <<>>
    /\ output_dir = <<>>
    /\ name_arg = NoName
    /\ name = <<>>
    /\ code = <<>>
    /\ markers = FALSE
    /\ output_file_path = <<>>
    /\ effects = <<>>
    /\ graised = "None"
    /\ response = <<>>

GenInit ==
    /\ GenIdle
    /\ dirs = {}
    /\ disk = <<>>
    /\ prev = NoPrev
    /\ calls = 0

CleanIdle ==
    /\ cpc = "idle"
    /\ cin = <<>>
    /\ cout = <<>>

\* the caller enters generate_workflow; the prompt is built
GenCall(desc, dir, nm) ==
    /\ gpc = "Idle"
    /\ calls < MaxCalls
    /\ calls' = calls + 1
    /\ description' = desc
    /\ output_dir' = dir
    /\ name_arg' = nm
    /\ gpc' = "Completion"
    /\ UNCHANGED <<name, code, markers, output_file_path, dirs, disk, effects,
                   graised, response, prev>>
    /\ UNCHANGED <<rvars, cvars>>

\* completion(...) returns; the response is cleaned, split, rendered and cleaned
\* again, and the file name is settled
CompletionReturns(resp, hex) ==
    /\ gpc = "Completion"
    /\ effects' = effects \o <<"completion">>
    /\ response' = resp
    /\ markers' = HasMarkers(clean_generated_code(resp))
    /\ code' = GeneratedCode(description, resp)
    /\ name' = FileName(name_arg, hex)
    /\ gpc' = "Makedirs"
    /\ UNCHANGED <<description, output_dir, name_arg, output_file_path, dirs, disk,
                   graised, prev, calls>>
    /\ UNCHANGED <<rvars, cvars>>

\* a generator that calls the completion boundary again when it has failed
CompletionFailsRetrying ==
    /\ gpc = "Completion"
    /\ Len(effects) < 2
    /\ effects' = effects \o <<"completion">>
    /\ UNCHANGED <<gpc, graised, description, output_dir, name_arg, name, code, markers,
                   output_file_path, dirs, disk, response, prev, calls>>
    /\ UNCHANGED <<rvars, cvars>>

\* completion(...) raises: the provider's error leaves generate_workflow unchanged
CompletionFails ==
    /\ gpc = "Completion"
    /\ effects' = effects \o <<"completion">>
    /\ graised' = "ProviderError"
    /\ gpc' = "Failed"
    /\ UNCHANGED <<description, output_dir, name_arg, name, code, markers,
                   output_file_path, dirs, disk, response, prev, calls>>
    /\ UNCHANGED <<rvars, cvars>>

\* os.makedirs(output_dir, exist_ok=True); output_file_path = os.path.join(...)
Makedirs ==
    /\ gpc = "Makedirs"
    /\ effects' = effects \o <<"makedirs">>
    /\ dirs' = dirs \cup {output_dir}
    /\ output_file_path' = PathJoin(output_dir, name)
    /\ gpc' = "Write"
    /\ UNCHANGED <<description, output_dir, name_arg, name, code, markers, disk,
                   graised, response, prev, calls>>
    /\ UNCHANGED <<rvars, cvars>>

\* os.makedirs raises OSError
MakedirsFails ==
    /\ gpc = "Makedirs"
    /\ output_dir \notin dirs
    /\ effects' = effects \o <<"makedirs">>
    /\ graised' = "OSError"
    /\ gpc' = "Failed"
    /\ UNCHANGED <<description, output_dir, name_arg, name, code, markers,
                   output_file_path, dirs, disk, response, prev, calls>>
    /\ UNCHANGED <<rvars, cvars>>

\* with open(output_file_path, 'w') as file: file.write(code)
WriteFile ==
    /\ gpc = "Write"
    /\ effects' = effects \o <<"write">>
    /\ disk' = WriteText(disk, output_file_path, code)
    /\ gpc' = "Done"
    /\ UNCHANGED <<description, output_dir, name_arg, name, code, markers,
                   output_file_path, dirs, graised, response, prev, calls>>
    /\ UNCHANGED <<rvars, cvars>>

\* open(output_file_path, 'w') raises OSError: nothing is rolled back
WriteFails ==
    /\ gpc = "Write"
    /\ effects' = effects \o <<"write">>
    /\ graised' = "OSError"
    /\ gpc' = "Failed"
    /\ UNCHANGED <<description, output_dir, name_arg, name, code, markers,
                   output_file_path, dirs, disk, response, prev, calls>>
    /\ UNCHANGED <<rvars, cvars>>

\* generate_workflow has returned output_file_path, or raised
GenReturn ==
    /\ gpc \in {"Done", "Failed"}
    /\ prev' = [valid |-> TRUE, name_arg |-> name_arg, output_dir |-> output_dir,
                ok |-> (gpc = "Done"), path |-> output_file_path, text |-> code,
                paths |-> DOMAIN disk]
    /\ gpc' = "Idle"
    /\ description' = <<>>
    /\ output_dir' = <<>>
    /\ name_arg' = NoName
    /\ name' = <<>>
    /\ code' = <<>>
    /\ markers' = FALSE
    /\ output_file_path' = <<>>
    /\ effects' = <<>>
    /\ graised' = "None"
    /\ response' = <<>>
    /\ UNCHANGED <<dirs, disk, calls>>
    /\ UNCHANGED <<rvars, cvars>>

\* generate_workflow is called with some description, directory and name
GenCalled ==
    /\ gpc = "Idle"
    /\ \E desc \in Descriptions, dir \in OutputDirs, nm \in Names :
          GenCall(desc, dir, nm)

\* the completion boundary answers with some text
CompletionAnswers ==
    /\ gpc = "Completion"
    /\ \E resp \in Responses, hex \in UuidHex : CompletionReturns(resp, hex)

GenNext ==
    \/ GenCalled
    \/ CompletionAnswers
    \/ CompletionFails
    \/ Makedirs
    \/ MakedirsFails
    \/ WriteFile
    \/ WriteFails
    \/ GenReturn

InitGen ==
    /\ RunnerIdle
    /\ files = {}
    /\ CleanIdle
    /\ GenInit

SpecGen == InitGen /\ [][GenNext]_vars

\* ------------------------------------------------------------------ Generator claims

SameExplicitNameAndDir ==
    /\ prev.valid
    /\ prev.ok
    /\ ~name_arg.none
    /\ name_arg.text # <<>>
    /\ prev.name_arg = name_arg
    /\ prev.output_dir = output_dir

\* C7: a second generate with the same explicit name and the same output
\* directory returns the path the first returned, the file there holds exactly
\* the second call's text, and no other file appeared; with or without ".py" in
\* the name given.
C7_SameNameOverwrites ==
    (gpc = "Done" /\ SameExplicitNameAndDir) =>
        /\ output_file_path = prev.path
        /\ disk[output_file_path] = code
        /\ DOMAIN disk = prev.paths

C7_Witness ==
    /\ gpc = "Done"
    /\ SameExplicitNameAndDir
    /\ name_arg = Named(<<"wf">>)
    /\ prev.text # code
    /\ output_file_path = <<"out", "/", "wf", ".py">>
    /\ disk[output_file_path] = code

C7_WitnessPy ==
    /\ gpc = "Done"
    /\ SameExplicitNameAndDir
    /\ name_arg = Named(<<"wf", ".py">>)
    /\ prev.text # code
    /\ output_file_path = <<"out", "/", "wf", ".py">>
    /\ disk[output_file_path] = code

\* empty, whitespace only, or empty once fences and headings are stripped
Unusable(resp) == clean_generated_code(resp) = <<>>

\* C8: generate never succeeds on a completion response with no usable content
\* (it fails with a generation error, writing no file and returning no path).
C8_UnusableResponseFails ==
    gpc = "Done" => ~Unusable(response)

\* C10: without the section markers the script written to disk holds the
\* placeholder comment line, still beginning with "#", as its helper section.
C10_PlaceholderSurvives ==
    (gpc = "Done" /\ ~markers) =>
        Contains(disk[output_file_path], NL \o Placeholder \o NL)

EffectOrder == <<"completion", "makedirs", "write">>
IsPrefix(a, b) == Len(a) <= Len(b) /\ \A i \in 1..Len(a) : a[i] = b[i]

C13_States ==
    /\ IsPrefix(effects, EffectOrder)
    /\ gpc = "Done" => (effects = EffectOrder /\ graised = "None")
    /\ gpc = "Failed" => graised # "None"
    /\ (gpc = "Failed" /\ graised = "ProviderError") => effects = <<"completion">>
    /\ (gpc = "Failed" /\ effects = EffectOrder) => output_dir \in dirs
    /\ output_file_path \in DOMAIN disk => output_dir \in dirs

C13_Step ==
    /\ gpc' # "Idle" => IsPrefix(effects, effects')
    /\ dirs \subseteq dirs'
    /\ dirs' # dirs =>
          (effects' = <<"completion", "makedirs">> /\ dirs' = dirs \cup {output_dir})
    /\ disk' # disk => (effects' = EffectOrder /\ gpc' = "Done")
    /\ (gpc = "Completion" /\ gpc' = "Failed") =>
          (graised' = "ProviderError" /\ dirs' = dirs /\ disk' = disk)
    /\ (gpc = "Write" /\ gpc' = "Failed") =>
          (dirs' = dirs /\ disk' = disk /\ output_dir \in dirs')

\* C13: every generate invocation makes its side effects in one order: one call
\* to the completion boundary, then one creation of the output directory, then
\* one file write; the completion call is not retried; when it fails its error
\* reaches the caller, no directory is created and no file written; when the file
\* write fails the directory created before it stays.
C13_EffectsInOrder ==
    /\ []C13_States
    /\ [][C13_Step]_vars

C13_Witness ==
    /\ gpc = "Failed"
    /\ graised = "OSError"
    /\ effects = EffectOrder
    /\ calls = 1
    /\ dirs = {output_dir}
    /\ DOMAIN disk = {}

C13_WitnessCompletionFailed ==
    /\ gpc = "Failed"
    /\ graised = "ProviderError"
    /\ effects = <<"completion">>
    /\ calls = 1
    /\ dirs = {}
    /\ DOMAIN disk = {}

\* ------------------------------------------------------------------ clean_generated_code alone

\* fence markers, heading markers and ordinary text
CleanPieces ==
    {Fence, Fence \o PythonWord, <<"#", " ">>, <<"#", "#", " ">>,
     <<" ">>, NL, <<"x">>, PythonWord}

CleanInputs == {Concat(ps) : ps \in SeqsUpTo(CleanPieces, MaxPieces)}

CleanInit ==
    /\ cpc = "input"
    /\ cin \in CleanInputs
    /\ cout = <<>>

\* cout = clean_generated_code(cin)
CleanApply ==
    /\ cpc = "input"
    /\ cout' = clean_generated_code(cin)
    /\ cpc' = "done"
    /\ UNCHANGED <<cin, rvars, gvars>>

CleanNext == CleanApply

InitClean ==
    /\ RunnerIdle
    /\ files = {}
    /\ GenInit
    /\ CleanInit

SpecClean == InitClean /\ [][CleanNext]_vars

HasFenceMarker(t) == Contains(t, Fence)

\* a line of t begins with one or more "#" followed by whitespace
HasHeadingMarker(t) ==
    \E i \in 1..Len(t) :
        /\ i = 1 \/ t[i - 1] = "\n"
        /\ t[i] = "#"
        /\ \E j \in (i + 1)..Len(t) :
              /\ IsSpace(t[j])
              /\ \A k \in i..(j - 1) : t[k] = "#"

\* C9: the text clean_generated_code returns holds no fence marker and no
\* heading marker; stated for the inputs with no whitespace at either end, so
\* that a marker in the result is not one that the final strip uncovered.
C9_NoMarkerRemains ==
    (cpc = "done" /\ Strip(cin) = cin) =>
        (~HasFenceMarker(cout) /\ ~HasHeadingMarker(cout))

\* the part of C9 that the code does meet: no fence marker is left
CleanLeavesNoFence ==
    cpc = "done" => ~HasFenceMarker(cout)

====
